---- MODULE Spec2Model ----
(***************************************************************************)
(* Gmail -> Google Sheets synchronisation: one pass of main() per run of   *)
(* the process, the StateManager's state file, the mailbox and the sheet.  *)
(* Cells are sequences of one-character strings so that str.strip() and    *)
(* str.lower() are computed, not assumed.                                  *)
(***************************************************************************)
EXTENDS Integers, Sequences, FiniteSets, TLC

VARIABLES
    mailbox,        \* Gmail: message id -> "absent" | "unread" | "read"
    sheet,          \* the sheet, row 1 first; a row is a sequence of cells
    stateFile,      \* state.json: <<>> when absent, else <<the persisted dict>>
    state,          \* StateManager.state of the running process
    pc,             \* position of main()
    passCount,      \* number of runs of main() started (also the clock)
    processed_ids,  \* main: set(state_manager.get_processed_ids())
    messages,       \* main: result of get_unread_messages
    new_messages,   \* main: messages not in processed_ids
    parsed_emails,  \* main: [message_id, row] of parsed messages
    failed_parsing, \* main: ids whose fetch or parse raised
    idx,            \* loop index of the parse loop and of the mark loop
    existing_rows,  \* append_rows: comparison list
    new_rows,       \* append_rows: rows accepted for the batch append
    skipped_count,  \* append_rows: rows judged duplicate
    appended_count, \* main: count returned by append_rows
    markResult,     \* main: result of the last mark_as_read call
    successfully_processed, \* main: ids marked read in this pass
    calls,          \* remote calls issued by the current pass (history)
    prev,           \* what the previous pass did (history)
    faults,         \* failed remote calls, failed saves and crashes so far
    dup,            \* inputs and result of a stand-alone is_duplicate call
    SHEET_ID,       \* config.SHEET_ID of the deployment
    parse           \* input and result of a stand-alone parse_message call

vars == <<mailbox, sheet, stateFile, state, pc, passCount, processed_ids,
          messages, new_messages, parsed_emails, failed_parsing, idx,
          existing_rows, new_rows, skipped_count, appended_count, markResult,
          successfully_processed, calls, prev, faults, dup, SHEET_ID, parse>>

----------------------------------------------------------------------------
(* Bounds *)

MaxPasses == 2      \* runs of main() explored
MaxSheetRows == 5   \* rows the sheet may hold
MaxFaults == 2      \* failed calls, failed saves and crashes explored
max_results == 3    \* page size of the fetch; main passes max_results=5

----------------------------------------------------------------------------
(* Strings *)

\* str.lower() on one character
LowerChar(c) ==
    CASE c = "A" -> "a"
      [] c = "H" -> "h"
      [] c = "I" -> "i"
      [] OTHER -> c

\* str.lower()
Lower(s) == [i \in 1..Len(s) |-> LowerChar(s[i])]

IsSpace(c) == c = " "

RECURSIVE LStrip(_)
LStrip(s) == IF s # <<>> /\ IsSpace(Head(s)) THEN LStrip(Tail(s)) ELSE s

RECURSIVE RStrip(_)
RStrip(s) ==
    IF s # <<>> /\ IsSpace(s[Len(s)]) THEN RStrip(SubSeq(s, 1, Len(s) - 1)) ELSE s

\* str.strip()
Strip(s) == RStrip(LStrip(s))

\* str(cell).strip().lower() if cell else ''
NormCell(cell) == IF cell # <<>> THEN Lower(Strip(cell)) ELSE <<>>

\* [str(cell).strip().lower() if cell else '' for cell in row]
NormRow(row) == [i \in 1..Len(row) |-> NormCell(row[i])]

----------------------------------------------------------------------------
(* SheetsService.is_duplicate *)

\* one iteration of the loop over existing_rows
RowMatchesNoLenient(normalized_new, normalized_existing) ==
    Len(normalized_new) = Len(normalized_existing)
        /\ normalized_new = normalized_existing

RowMatches(normalized_new, normalized_existing) ==
    \/ /\ Len(normalized_new) = Len(normalized_existing)
       /\ normalized_new = normalized_existing
    \/ /\ Len(normalized_new) >= 3
       /\ Len(normalized_existing) >= 3
       /\ normalized_new[1] = normalized_existing[1]
       /\ normalized_new[2] = normalized_existing[2]
       /\ normalized_new[3] = normalized_existing[3]

is_duplicate(new_row, rows) ==
    \E i \in 1..Len(rows) : RowMatches(NormRow(new_row), NormRow(rows[i]))

----------------------------------------------------------------------------
(* The mailbox: four messages, in the order the provider lists them.       *)
(* m1 and m2 agree on sender, subject (up to case) and second of arrival   *)
(* and differ in body; m4 has an empty body.                               *)

MsgOrder == <<"m1", "m2", "m3", "m4">>

Msgs == {MsgOrder[i] : i \in 1..Len(MsgOrder)}

\* the message object get_message_details returns, reduced to what
\* parse_message reads: From, Subject, internalDate (formatted), body text
RawMessage(m) ==
    CASE m = "m1" -> [from |-> <<"a">>, subject |-> <<"H", "i">>,
                      date |-> <<"1">>, content |-> <<"x">>]
      [] m = "m2" -> [from |-> <<"a">>, subject |-> <<"H", "I">>,
                      date |-> <<"1">>, content |-> <<"y">>]
      [] m = "m3" -> [from |-> <<"b">>, subject |-> <<"H", "i">>,
                      date |-> <<"1">>, content |-> <<"x">>]
      [] OTHER    -> [from |-> <<"a">>, subject |-> <<"H", "i">>,
                      date |-> <<"2">>, content |-> <<>>]

\* EmailParser.parse_message followed by main's conversion to a row
ParsedRow(m) ==
    LET parsed_data == RawMessage(m)
    IN  <<parsed_data.from, parsed_data.subject, parsed_data.date,
          parsed_data.content>>

----------------------------------------------------------------------------
(* The sheet *)

HEADER_ROW == << <<"F", "r", "o", "m">>, <<"S", "u", "b", "j", "e", "c", "t">>,
                 <<"D", "a", "t", "e">>, <<"C", "o", "n", "t", "e", "n", "t">> >>

\* values().get drops the trailing empty cells of a row
RECURSIVE DropTrailingEmpty(_)
DropTrailingEmpty(row) ==
    IF row # <<>> /\ row[Len(row)] = <<>>
    THEN DropTrailingEmpty(SubSeq(row, 1, Len(row) - 1))
    ELSE row

\* get_existing_rows(sheet_name, max_rows=10000)
max_rows == 10000

\* values().get of A2:D{max_rows + 1}
ReadDataRange(sh) ==
    LET lastRow == IF Len(sh) < max_rows + 1 THEN Len(sh) ELSE max_rows + 1
    IN  [i \in 1..(IF lastRow > 1 THEN lastRow - 1 ELSE 0) |->
            DropTrailingEmpty(sh[i + 1])]

\* values().get of A1:D1
ReadHeaderRange(sh) == IF Len(sh) >= 1 THEN <<DropTrailingEmpty(sh[1])>> ELSE <<>>

\* values().update of A1:D1
WriteHeaderRange(sh, row) == IF sh = <<>> THEN <<row>> ELSE [sh EXCEPT ![1] = row]

\* values().append with INSERT_ROWS: the rows go below the last row of the table
AppendRange(sh, rows) == sh \o rows

----------------------------------------------------------------------------
(* StateManager *)

DefaultState == [processed_message_ids |-> <<>>, last_run_timestamp |-> <<>>]

\* the content of a state.json that json.load rejects, or that is not a JSON
\* object: a cut-off or empty file
NotJson == [not_json |-> TRUE]

\* json.load returns and the result has a get method (lines 64-67)
LoadsAsDict(content) == "not_json" \notin DOMAIN content

\* load_state without the try of lines 63-69
load_state_unguarded(file) == IF file # <<>> THEN file[1] ELSE DefaultState

\* stateFile is <<>> when state.json does not exist, <<content>> otherwise
load_state(file) ==
    IF file # <<>> /\ LoadsAsDict(file[1]) THEN file[1] ELSE DefaultState

\* dict.get(key, [])
get_processed_ids(st) ==
    IF "processed_message_ids" \in DOMAIN st THEN st.processed_message_ids ELSE <<>>

SeqToSet(s) == {s[i] : i \in 1..Len(s)}

is_processed(st, message_id) == message_id \in SeqToSet(get_processed_ids(st))

\* mark_processed without the membership test of line 109
mark_processed_appending(st, message_id) ==
    ("processed_message_ids" :> Append(get_processed_ids(st), message_id)) @@ st

\* mark_processed with the list replaced instead of appended to
mark_processed_replacing(st, message_id) ==
    ("processed_message_ids" :> <<message_id>>) @@ st

mark_processed(st, message_id) ==
    IF message_id \notin SeqToSet(get_processed_ids(st))
    THEN ("processed_message_ids" :> Append(get_processed_ids(st), message_id)) @@ st
    ELSE st

update_last_run(st, now) == ("last_run_timestamp" :> <<now>>) @@ st

----------------------------------------------------------------------------
(* SheetsService.append_rows, lines 243-254: the filter loop *)

\* the loop without line 254
RECURSIVE FilterLoopNoGrow(_, _, _)
FilterLoopNoGrow(rows, n, existing) ==
    IF n = 0
    THEN [existing_rows |-> existing, new_rows |-> <<>>, skipped_count |-> 0]
    ELSE LET before == FilterLoopNoGrow(rows, n - 1, existing)
         IN  IF is_duplicate(rows[n], before.existing_rows)
             THEN [before EXCEPT !.skipped_count = @ + 1]
             ELSE [before EXCEPT !.new_rows = Append(@, rows[n])]

\* the state of the loop after rows[1..n]: comparison list, batch, skipped
RECURSIVE FilterLoop(_, _, _)
FilterLoop(rows, n, existing) ==
    IF n = 0
    THEN [existing_rows |-> existing, new_rows |-> <<>>, skipped_count |-> 0]
    ELSE LET before == FilterLoop(rows, n - 1, existing)
         IN  IF is_duplicate(rows[n], before.existing_rows)
             THEN [before EXCEPT !.skipped_count = @ + 1]
             ELSE [before EXCEPT !.new_rows = Append(@, rows[n]),
                                 !.existing_rows = Append(@, rows[n])]

----------------------------------------------------------------------------
(* Initial state *)

NoCalls == [appendReturned |-> FALSE, full |-> {}, headerWrites |-> 0, reads |-> 0, appends |-> 0,
            appended |-> <<>>, mark |-> <<>>, markOk |-> {},
            failed |-> FALSE, truncated |-> FALSE, sinkFailed |-> FALSE,
            saveFailed |-> FALSE, summary |-> FALSE, auth |-> 0,
            authFailed |-> FALSE, fullFailed |-> FALSE]

\* quiet: the previous run reached "done" and no mail has arrived since;
\* clean: moreover none of its fetch-full or mark-read calls failed, it left
\* no cut-off state.json, its page held every unread message and the user
\* has re-marked nothing since;
\* pending: the messages whose row the previous run appended and whose
\* mark-read call failed
\* unsaved: the messages the previous run called mark-read for, when its
\* save_state failed
NoPrev == [quiet |-> FALSE, clean |-> FALSE, pending |-> {}, unsaved |-> {}]

NoDup == [cand |-> <<>>, rows |-> <<>>, called |-> FALSE, result |-> FALSE]

NoParse == [message |-> <<>>, called |-> FALSE, result |-> <<>>]

InitLocals ==
    /\ processed_ids = {}
    /\ messages = <<>>
    /\ new_messages = <<>>
    /\ parsed_emails = <<>>
    /\ failed_parsing = <<>>
    /\ idx = 0
    /\ existing_rows = <<>>
    /\ new_rows = <<>>
    /\ skipped_count = 0
    /\ appended_count = 0
    /\ markResult = FALSE
    /\ successfully_processed = <<>>

\* config.py line 21 as shipped
ConfiguredSheetId == "1p0augs0BT5a0inFRrXkPc_rAF1a7fyL6YtZ2ux7SonA"

Init ==
    /\ mailbox = [m \in Msgs |-> "absent"]
    /\ sheet = <<>>
    /\ stateFile = <<>>
    /\ state = DefaultState
    /\ pc = "idle"
    /\ passCount = 0
    /\ InitLocals
    /\ calls = NoCalls
    /\ prev = NoPrev
    /\ faults = 0
    /\ dup = NoDup
    /\ SHEET_ID \in {"YOUR_SHEET_ID_HERE", ConfiguredSheetId}
    /\ parse = NoParse

----------------------------------------------------------------------------
(* The environment: mail arrives, the user marks a read message unread *)

Arrive(m) ==
    /\ pc = "idle"
    /\ mailbox[m] = "absent"
    /\ mailbox' = [mailbox EXCEPT ![m] = "unread"]
    /\ prev' = [prev EXCEPT !.quiet = FALSE, !.clean = FALSE]
    /\ UNCHANGED <<sheet, stateFile, state, pc, passCount, processed_ids,
                   messages, new_messages, parsed_emails, failed_parsing, idx,
                   existing_rows, new_rows, skipped_count, appended_count,
                   markResult, successfully_processed, calls, faults, dup, SHEET_ID, parse>>

UserMarksUnread(m) ==
    /\ pc = "idle"
    /\ mailbox[m] = "read"
    /\ mailbox' = [mailbox EXCEPT ![m] = "unread"]
    /\ prev' = [prev EXCEPT !.clean = FALSE]
    /\ UNCHANGED <<sheet, stateFile, state, pc, passCount, processed_ids,
                   messages, new_messages, parsed_emails, failed_parsing, idx,
                   existing_rows, new_rows, skipped_count, appended_count,
                   markResult, successfully_processed, calls, faults, dup, SHEET_ID, parse>>

----------------------------------------------------------------------------
(* main(): one run of the process *)

Running == pc \notin {"idle", "done", "aborted", "unconfigured"}

\* a remote call, a save or the process fails
Fault == faults < MaxFaults /\ faults' = faults + 1

NoFault == faults' = faults

ResetLocals ==
    /\ messages' = <<>>
    /\ new_messages' = <<>>
    /\ parsed_emails' = <<>>
    /\ failed_parsing' = <<>>
    /\ idx' = 0
    /\ existing_rows' = <<>>
    /\ new_rows' = <<>>
    /\ skipped_count' = 0
    /\ appended_count' = 0
    /\ markResult' = FALSE
    /\ successfully_processed' = <<>>

\* main lines 151-155 with the check of SHEET_ID left out
AfterConstructionUnchecked(sheet_id) == "auth"

\* main lines 151-155: where main goes once the services are constructed
AfterConstruction(sheet_id) ==
    IF sheet_id = "YOUR_SHEET_ID_HERE" THEN "unconfigured" ELSE "auth"

\* lines 146-155: the process starts, StateManager() loads state.json, the
\* sheet id is checked
StartPass ==
    /\ pc = "idle"
    /\ passCount < MaxPasses
    /\ passCount' = passCount + 1
    /\ state' = load_state(stateFile)
    /\ pc' = AfterConstruction(SHEET_ID)
    /\ ResetLocals
    /\ UNCHANGED <<mailbox, sheet, stateFile, processed_ids, calls, prev, faults,
                   dup, SHEET_ID, parse>>

\* lines 158-172: GmailService.authenticate, SheetsService.authenticate, then
\* the processed ids are read from the state manager
Authenticate ==
    /\ pc = "auth"
    /\ \/ /\ NoFault
          /\ calls' = [calls EXCEPT !.auth = @ + 1]
          /\ processed_ids' = SeqToSet(get_processed_ids(state))
          /\ pc' = "fetch"
       \/ \* an authenticate returns False (lines 160-162, 165-167) or raises
          /\ Fault
          /\ calls' = [calls EXCEPT !.auth = @ + 1, !.authFailed = TRUE]
          /\ pc' = "aborted"
          /\ UNCHANGED processed_ids
    /\ UNCHANGED <<mailbox, sheet, stateFile, state, passCount,
                   messages, new_messages, parsed_emails, failed_parsing, idx,
                   existing_rows, new_rows, skipped_count, appended_count,
                   markResult, successfully_processed, prev, dup, SHEET_ID, parse>>

\* the first n elements of s
Take(s, n) == SubSeq(s, 1, IF Len(s) < n THEN Len(s) ELSE n)

\* GmailService.get_unread_messages: the first page of 'in:inbox is:unread'
get_inbox_messages(n) ==
    Take(SelectSeq(MsgOrder, LAMBDA m : mailbox[m] # "absent"), n)

get_unread_messages(n) ==
    Take(SelectSeq(MsgOrder, LAMBDA m : mailbox[m] = "unread"), n)

\* main, lines 184-187
FilterProcessedNone(msgs, processed) == msgs

FilterProcessed(msgs, processed) == SelectSeq(msgs, LAMBDA m : m \notin processed)

\* main, lines 178-180 and 191-193: the two early returns
FetchNeverShortCircuits(found, fresh) == FALSE

FetchShortCircuits(found, fresh) == found = <<>> \/ fresh = <<>>

\* main lines 180, 193, 229 with the early return replaced by a jump to the
\* state update
AfterShortCircuitSaves == "save"

\* main lines 180, 193, 229: the early returns leave main
AfterShortCircuit == "done"

\* lines 176-193: fetch the page of unread messages, drop the processed ones
Fetch ==
    /\ pc = "fetch"
    /\ \/ \* HttpError: logged and re-raised, main re-raises
          /\ Fault
          /\ pc' = "aborted"
          /\ UNCHANGED <<messages, new_messages, idx, calls>>
       \/ LET found == get_unread_messages(max_results)
              fresh == FilterProcessed(found, processed_ids)
          IN  /\ NoFault
              /\ messages' = found
              /\ new_messages' = fresh
              /\ idx' = 1
              /\ calls' = [calls EXCEPT !.truncated =
                              Cardinality({m \in Msgs : mailbox[m] = "unread"})
                                  > Len(found)]
              /\ pc' = IF FetchShortCircuits(found, fresh)
                       THEN AfterShortCircuit ELSE "parse"
    /\ UNCHANGED <<mailbox, sheet, stateFile, state, passCount, processed_ids,
                   parsed_emails, failed_parsing, existing_rows, new_rows,
                   skipped_count, appended_count, markResult,
                   successfully_processed, prev, dup, SHEET_ID, parse>>

\* main lines 221-223 with the handler re-raising
AfterParseFailureAborts(next) == "aborted"

\* main lines 221-223: the handler logs, notes the id, and the loop goes on
AfterParseFailure(next) == next

\* lines 200-229: one iteration of the parse loop; after the last one the
\* check for an empty parsed_emails
ParseOne ==
    /\ pc = "parse"
    /\ idx <= Len(new_messages)
    /\ LET msg == new_messages[idx]
           last == idx = Len(new_messages)
       IN  \/ \* get_message_details raises HttpError (gmail_service.py
              \* 147-149) or parse_message raises: caught at line 221
              /\ Fault
              /\ failed_parsing' = Append(failed_parsing, msg)
              /\ \E transport \in BOOLEAN :
                     calls' = [calls EXCEPT !.full = @ \cup {msg}, !.failed = TRUE,
                                            !.fullFailed = @ \/ transport]
              /\ pc' = AfterParseFailure(
                           IF last
                           THEN (IF parsed_emails = <<>>
                                 THEN AfterShortCircuit ELSE "header")
                           ELSE "parse")
              /\ UNCHANGED parsed_emails
           \/ /\ NoFault
              /\ parsed_emails' =
                    Append(parsed_emails, [message_id |-> msg, row |-> ParsedRow(msg)])
              /\ calls' = [calls EXCEPT !.full = @ \cup {msg}]
              /\ pc' = IF last THEN "header" ELSE "parse"
              /\ UNCHANGED failed_parsing
    /\ idx' = idx + 1
    /\ UNCHANGED <<mailbox, sheet, stateFile, state, passCount, processed_ids,
                   messages, new_messages, existing_rows, new_rows,
                   skipped_count, appended_count, markResult,
                   successfully_processed, prev, dup, SHEET_ID, parse>>

\* SheetsService.ensure_header_row, called at append_rows line 238
ensure_header_row ==
    /\ pc = "header"
    /\ \/ \* values().get or values().update raises HttpError: returns False
          /\ Fault
          /\ calls' = [calls EXCEPT !.sinkFailed = TRUE]
          /\ UNCHANGED sheet
       \/ /\ NoFault
          /\ ReadHeaderRange(sheet) = <<>>
          /\ sheet' = WriteHeaderRange(sheet, HEADER_ROW)
          /\ calls' = [calls EXCEPT !.headerWrites = @ + 1]
       \/ /\ NoFault
          /\ ReadHeaderRange(sheet) # <<>>
          /\ UNCHANGED <<sheet, calls>>
    /\ pc' = "read"
    /\ UNCHANGED <<mailbox, stateFile, state, passCount, processed_ids,
                   messages, new_messages, parsed_emails, failed_parsing, idx,
                   existing_rows, new_rows, skipped_count, appended_count,
                   markResult, successfully_processed, prev, dup, SHEET_ID, parse>>

\* main line 233 with the list built back to front
RowsOfReversed(parsed) == [i \in 1..Len(parsed) |-> parsed[Len(parsed) + 1 - i].row]

\* main line 233
RowsOf(parsed) == [i \in 1..Len(parsed) |-> parsed[i].row]

\* append_rows lines 241-258 once get_existing_rows has returned `fetched`
FilterRows(fetched) ==
    LET rows == RowsOf(parsed_emails)
        loop == FilterLoop(rows, Len(rows), fetched)
    IN  /\ existing_rows' = loop.existing_rows
        /\ new_rows' = loop.new_rows
        /\ skipped_count' = loop.skipped_count
        /\ pc' = IF loop.new_rows = <<>> THEN "mark" ELSE "append"

\* SheetsService.get_existing_rows (line 241) and the filter loop of
\* append_rows (lines 243-258)
get_existing_rows ==
    /\ pc = "read"
    /\ \/ /\ NoFault
          /\ FilterRows(ReadDataRange(sheet))
          /\ calls' = [calls EXCEPT !.reads = @ + 1,
                                    !.appendReturned = (pc' = "mark")]
       \/ \* values().get raises HttpError: returns [] at line 184
          /\ Fault
          /\ FilterRows(<<>>)
          /\ calls' = [calls EXCEPT !.reads = @ + 1, !.sinkFailed = TRUE,
                                    !.appendReturned = (pc' = "mark")]
    /\ idx' = 1
    /\ UNCHANGED <<mailbox, sheet, stateFile, state, passCount, processed_ids,
                   messages, new_messages, parsed_emails, failed_parsing,
                   appended_count, markResult, successfully_processed, prev, dup, SHEET_ID, parse>>

\* append_rows lines 279-281 and main lines 273-275: where a failed append
\* leaves main
AfterAppendFailureContinue == "mark"

AfterAppendFailure == "aborted"

\* append_rows lines 262-264 with one row per call
BatchOfFirst(accepted) == <<accepted[1]>>

\* append_rows lines 262-264: the body of the one append call
BatchOf(accepted) == accepted

\* append_rows lines 261-281: the batch append
BatchAppend ==
    /\ pc = "append"
    /\ \/ \* HttpError: logged and re-raised, main re-raises
          /\ Fault
          /\ pc' = AfterAppendFailure
          /\ calls' = [calls EXCEPT !.appends = @ + 1]
          /\ UNCHANGED <<sheet, appended_count>>
       \/ /\ NoFault
          /\ Len(sheet) + Len(new_rows) <= MaxSheetRows
          /\ sheet' = AppendRange(sheet, BatchOf(new_rows))
          /\ appended_count' = Len(BatchOf(new_rows))
          /\ calls' = [calls EXCEPT !.appends = @ + 1,
                                    !.appended = @ \o BatchOf(new_rows),
                                    !.appendReturned = TRUE]
          /\ pc' = "mark"
    /\ UNCHANGED <<mailbox, stateFile, state, passCount, processed_ids,
                   messages, new_messages, parsed_emails, failed_parsing, idx,
                   existing_rows, new_rows, skipped_count, markResult,
                   successfully_processed, prev, dup, SHEET_ID, parse>>

\* main line 246 with the loop limited to the rows of the append batch
MarkLoopOverAccepted(parsed, accepted) ==
    SelectSeq(parsed, LAMBDA e : e.row \in SeqToSet(accepted))

\* main line 246: the mark loop runs over parsed_emails
MarkLoopOver(parsed, accepted) == parsed

\* GmailService.mark_as_read, called at main line 251
mark_as_read ==
    /\ pc = "mark"
    /\ idx <= Len(MarkLoopOver(parsed_emails, new_rows))
    /\ LET message_id == MarkLoopOver(parsed_emails, new_rows)[idx].message_id
       IN  \/ /\ NoFault
              /\ mailbox' = [mailbox EXCEPT ![message_id] = "read"]
              /\ markResult' = TRUE
              /\ calls' = [calls EXCEPT !.mark = Append(@, message_id),
                                        !.markOk = @ \cup {message_id}]
           \/ \* HttpError: returns False
              /\ Fault
              /\ markResult' = FALSE
              /\ calls' = [calls EXCEPT !.mark = Append(@, message_id),
                                        !.failed = TRUE]
              /\ UNCHANGED mailbox
    /\ pc' = "record"
    /\ UNCHANGED <<sheet, stateFile, state, passCount, processed_ids,
                   messages, new_messages, parsed_emails, failed_parsing, idx,
                   existing_rows, new_rows, skipped_count, appended_count,
                   successfully_processed, prev, dup, SHEET_ID, parse>>

\* main line 251: the condition under which the id is recorded
RecordsProcessedAlways(ok) == TRUE

RecordsProcessed(ok) == ok

\* main line 246: the for loop goes on whatever mark_as_read returned
MarkLoopStopsAtFailure(ok, last) == IF last \/ ~ok THEN "save" ELSE "mark"

MarkLoopNext(ok, last) == IF last THEN "save" ELSE "mark"

\* main lines 251-253: the body of the if, then the next iteration
RecordProcessed ==
    /\ pc = "record"
    /\ LET message_id == MarkLoopOver(parsed_emails, new_rows)[idx].message_id
       IN  IF RecordsProcessed(markResult)
           THEN /\ successfully_processed' = Append(successfully_processed, message_id)
                /\ state' = mark_processed(state, message_id)
           ELSE UNCHANGED <<successfully_processed, state>>
    /\ idx' = idx + 1
    /\ pc' = MarkLoopNext(markResult,
                          idx = Len(MarkLoopOver(parsed_emails, new_rows)))
    /\ UNCHANGED <<mailbox, sheet, stateFile, passCount, processed_ids,
                   messages, new_messages, parsed_emails, failed_parsing,
                   existing_rows, new_rows, skipped_count, appended_count,
                   markResult, calls, prev, faults, dup, SHEET_ID, parse>>

\* main lines 262-271 follow save_state, which raises nothing
SummaryOnlyIfSaved(saved) == saved

SummaryLogged(saved) == TRUE

\* main lines 259-271: update_last_run, save_state, the summary
SaveState ==
    /\ pc = "save"
    /\ state' = update_last_run(state, passCount)
    /\ \/ /\ NoFault
          /\ stateFile' = <<update_last_run(state, passCount)>>
          /\ calls' = [calls EXCEPT !.summary = SummaryLogged(TRUE)]
       \/ \* open raises, the file is as it was, or json.dump raises, the
          \* file is cut off: logged at line 84
          /\ Fault
          /\ stateFile' \in {stateFile, <<NotJson>>}
          /\ calls' = [calls EXCEPT !.saveFailed = TRUE,
                                    !.summary = SummaryLogged(FALSE)]
    /\ pc' = "done"
    /\ UNCHANGED <<mailbox, sheet, passCount, processed_ids,
                   messages, new_messages, parsed_emails, failed_parsing, idx,
                   existing_rows, new_rows, skipped_count, appended_count,
                   markResult, successfully_processed, prev, dup, SHEET_ID, parse>>

\* what a run that ended in `outcome` leaves for the next one to be told
Leaves(outcome) ==
    [quiet |-> outcome = "done",
     clean |-> outcome = "done" /\ ~calls.failed /\ ~calls.truncated
                  /\ stateFile # <<NotJson>>,
     pending |-> {m \in SeqToSet(calls.mark) \ calls.markOk :
                     \E i \in 1..Len(calls.appended) :
                         calls.appended[i] = ParsedRow(m)},
     unsaved |-> IF calls.saveFailed THEN SeqToSet(calls.mark) ELSE {}]

\* main has returned or raised: the process ends and its memory is gone
ProcessExit ==
    /\ pc \in {"done", "aborted", "unconfigured"}
    /\ pc' = "idle"
    /\ prev' = Leaves(pc)
    /\ calls' = NoCalls
    /\ state' = DefaultState
    /\ processed_ids' = {}
    /\ ResetLocals
    /\ UNCHANGED <<mailbox, sheet, stateFile, passCount, faults, dup, SHEET_ID, parse>>

\* the process is killed, or a call raises something no handler catches
Crash ==
    /\ Running
    /\ Fault
    /\ pc' = "idle"
    /\ prev' = Leaves("crashed")
    /\ calls' = NoCalls
    /\ state' = DefaultState
    /\ processed_ids' = {}
    /\ ResetLocals
    /\ UNCHANGED <<mailbox, sheet, stateFile, passCount, dup, SHEET_ID, parse>>

Next ==
    \/ \E m \in Msgs : Arrive(m)
    \/ \E m \in Msgs : UserMarksUnread(m)
    \/ StartPass
    \/ Authenticate
    \/ Fetch
    \/ ParseOne
    \/ ensure_header_row
    \/ get_existing_rows
    \/ BatchAppend
    \/ mark_as_read
    \/ RecordProcessed
    \/ SaveState
    \/ ProcessExit
    \/ Crash

Spec == Init /\ [][Next]_vars

----------------------------------------------------------------------------
(* Repeated passes with every remote call, save and parse succeeding: the  *)
(* process is started again and again and each run is left to finish.      *)

InitLive ==
    /\ mailbox = [m \in Msgs |-> "absent"]
    /\ sheet = <<>>
    /\ stateFile = <<>>
    /\ state = DefaultState
    /\ pc = "idle"
    /\ passCount = 0
    /\ InitLocals
    /\ calls = NoCalls
    /\ prev = NoPrev
    /\ faults = MaxFaults
    /\ dup = NoDup
    /\ SHEET_ID = ConfiguredSheetId
    /\ parse = NoParse

\* lines 146-155, as StartPass; the clock stops at MaxPasses while passes
\* go on
StartPassAgain ==
    /\ pc = "idle"
    /\ passCount' = IF passCount < MaxPasses THEN passCount + 1 ELSE passCount
    /\ state' = load_state(stateFile)
    /\ pc' = AfterConstruction(SHEET_ID)
    /\ ResetLocals
    /\ UNCHANGED <<mailbox, sheet, stateFile, processed_ids, calls, prev, faults,
                   dup, SHEET_ID, parse>>

\* the steps of the process, from its start to its exit, but for the read
\* of the sheet
RunProcess ==
    \/ StartPassAgain
    \/ Authenticate
    \/ Fetch
    \/ ParseOne
    \/ ensure_header_row
    \/ BatchAppend
    \/ mark_as_read
    \/ RecordProcessed
    \/ SaveState
    \/ ProcessExit

NextLive ==
    \/ \E m \in Msgs : Arrive(m)
    \/ \E m \in Msgs : UserMarksUnread(m)
    \/ StartPassAgain
    \/ Authenticate
    \/ Fetch
    \/ ParseOne
    \/ ensure_header_row
    \/ get_existing_rows
    \/ BatchAppend
    \/ mark_as_read
    \/ RecordProcessed
    \/ SaveState
    \/ ProcessExit

\* the process is always started again and always runs to its end, and the
\* read of the sheet, which no state of this specification disables, always
\* returns; the mailbox's owner and the senders are under no obligation
SpecLive ==
    /\ InitLive
    /\ [][NextLive]_vars
    /\ WF_vars(RunProcess)
    /\ []<>(pc # "read")

----------------------------------------------------------------------------
(* Stand-alone calls of is_duplicate on drawn inputs *)

MaxCompare == 2     \* length of the comparison sequence

DupFrom == {<<"a">>, <<" ", "A">>}
DupSubject == {<<"H", "i">>, <<"h", "I", " ">>, <<"b">>}
DupDate == {<<"1">>, <<"2">>}
DupContent == {<<"x">>, <<"y">>, <<>>}

\* 4-field candidate rows
CandRows == {<<f, s, d, c>> : f \in DupFrom, s \in DupSubject, d \in {<<"1">>},
                                c \in DupContent}

\* rows as the sheet returns them: four cells, fewer when the trailing cells
\* are empty or were never filled
ExistRows ==
    LET full == {<<f, s, d, c>> : f \in {<<"a">>, <<"A">>}, s \in {<<"H", "i">>},
                                  d \in DupDate, c \in {<<"x">>, <<"Y">>, <<>>}}
    IN  {DropTrailingEmpty(r) : r \in full}
            \cup {SubSeq(r, 1, 2) : r \in full}
            \cup {<<>>}

RECURSIVE SeqsUpTo(_, _)
SeqsUpTo(S, n) ==
    IF n = 0 THEN {<<>>}
    ELSE LET shorter == SeqsUpTo(S, n - 1)
         IN  shorter \cup {Append(q, x) : q \in shorter, x \in S}

InitDup ==
    /\ mailbox = [m \in Msgs |-> "absent"]
    /\ sheet = <<>>
    /\ stateFile = <<>>
    /\ state = DefaultState
    /\ pc = "idle"
    /\ passCount = 0
    /\ InitLocals
    /\ calls = NoCalls
    /\ prev = NoPrev
    /\ faults = 0
    /\ SHEET_ID = ConfiguredSheetId
    /\ parse = NoParse
    /\ dup \in [cand : CandRows, rows : SeqsUpTo(ExistRows, MaxCompare),
                called : {FALSE}, result : {FALSE}]

CallIsDuplicate ==
    /\ ~dup.called
    /\ dup' = [dup EXCEPT !.called = TRUE, !.result = is_duplicate(dup.cand, dup.rows)]
    /\ UNCHANGED <<mailbox, sheet, stateFile, state, pc, passCount, processed_ids,
                   messages, new_messages, parsed_emails, failed_parsing, idx,
                   existing_rows, new_rows, skipped_count, appended_count,
                   markResult, successfully_processed, calls, prev, faults,
                   SHEET_ID, parse>>

NextDup == CallIsDuplicate

SpecDup == InitDup /\ [][NextDup]_vars

----------------------------------------------------------------------------
(* Stand-alone use of StateManager on a drawn state.json *)

MaxIds == 2         \* length of a persisted id list

\* the JSON objects state.json may hold: each key present or not
StateDicts ==
    LET lists == SeqsUpTo(Msgs, MaxIds)
        stamps == {<<>>, <<0>>}
    IN  {[processed_message_ids |-> l, last_run_timestamp |-> t] :
             l \in lists, t \in stamps}
            \cup {[processed_message_ids |-> l] : l \in lists}
            \cup {[last_run_timestamp |-> t] : t \in stamps}

\* no file, a file json.load rejects, a file holding an object
StateFiles == {<<>>, <<NotJson>>} \cup {<<d>> : d \in StateDicts}

InitLoad ==
    /\ mailbox = [m \in Msgs |-> "absent"]
    /\ sheet = <<>>
    /\ stateFile \in StateFiles
    /\ state = DefaultState
    /\ pc = "construct"
    /\ passCount = 0
    /\ InitLocals
    /\ calls = NoCalls
    /\ prev = NoPrev
    /\ faults = 0
    /\ dup = NoDup
    /\ SHEET_ID = ConfiguredSheetId
    /\ parse = NoParse

\* StateManager.__init__, line 53
ConstructStateManager ==
    /\ pc = "construct"
    /\ state' = load_state(stateFile)
    /\ pc' = "loaded"
    /\ UNCHANGED <<mailbox, sheet, stateFile, passCount, processed_ids,
                   messages, new_messages, parsed_emails, failed_parsing, idx,
                   existing_rows, new_rows, skipped_count, appended_count,
                   markResult, successfully_processed, calls, prev, faults,
                   dup, SHEET_ID, parse>>

\* main line 171
CallGetProcessedIds ==
    /\ pc = "loaded"
    /\ processed_ids' = SeqToSet(get_processed_ids(state))
    /\ pc' = "ids"
    /\ UNCHANGED <<mailbox, sheet, stateFile, state, passCount,
                   messages, new_messages, parsed_emails, failed_parsing, idx,
                   existing_rows, new_rows, skipped_count, appended_count,
                   markResult, successfully_processed, calls, prev, faults,
                   dup, SHEET_ID, parse>>

\* main line 253
CallMarkProcessed(message_id) ==
    /\ pc = "ids"
    /\ Len(get_processed_ids(state)) <= MaxIds
    /\ state' = mark_processed(state, message_id)
    /\ UNCHANGED <<mailbox, sheet, stateFile, pc, passCount, processed_ids,
                   messages, new_messages, parsed_emails, failed_parsing, idx,
                   existing_rows, new_rows, skipped_count, appended_count,
                   markResult, successfully_processed, calls, prev, faults,
                   dup, SHEET_ID, parse>>

NextLoad ==
    \/ ConstructStateManager
    \/ CallGetProcessedIds
    \/ \E m \in Msgs : CallMarkProcessed(m)

SpecLoad == InitLoad /\ [][NextLoad]_vars

----------------------------------------------------------------------------
(* EmailParser: stand-alone calls of parse_message on drawn raw messages.  *)
(* Body texts are sequences of one-character strings; base64url data and   *)
(* header values are tokens, decoded by tables of what the library calls   *)
(* return for exactly these tokens.                                        *)

MaxParts == 2       \* length of a parts list, at the top and when nested

\* base64.urlsafe_b64decode(data).decode('utf-8'), lines 90, 100, 118
B64Decode(data) ==
    CASE data = "cA==" -> <<"p">>
      [] data = "cQ==" -> <<"q">>
      [] data = "IHAg" -> <<" ", "p", " ">>
      [] data = "PGI-aDwvYj4=" -> <<"<", "b", ">", "h", "<", "/", "b", ">">>
      [] data = "PGk-eDwvaT4geQ==" ->
             <<"<", "i", ">", "x", "<", "/", "i", ">", " ", "y">>
      [] OTHER -> <<>>

\* the index of the first ">" of s at or after i, 0 when there is none
RECURSIVE FirstClose(_, _)
FirstClose(s, i) ==
    IF i > Len(s) THEN 0
    ELSE IF s[i] = ">" THEN i
    ELSE FirstClose(s, i + 1)

\* re.sub(r'<[^>]+>', '', html_content), line 155
RECURSIVE RemoveTags(_)
RemoveTags(s) ==
    IF s = <<>> THEN <<>>
    ELSE LET close == FirstClose(s, 2)
         IN  IF s[1] = "<" /\ close > 2
             THEN RemoveTags(SubSeq(s, close + 1, Len(s)))
             ELSE <<s[1]>> \o RemoveTags(Tail(s))

\* html.unescape, line 158, for the reference "&amp;"
RECURSIVE Unescape(_)
Unescape(s) ==
    IF s = <<>> THEN <<>>
    ELSE IF Len(s) >= 5 /\ SubSeq(s, 1, 5) = <<"&", "a", "m", "p", ";">>
    THEN <<"&">> \o Unescape(SubSeq(s, 6, Len(s)))
    ELSE <<s[1]>> \o Unescape(Tail(s))

\* re.sub(r'\s+', ' ', text), line 161
RECURSIVE CollapseSpaces(_)
CollapseSpaces(s) ==
    IF Len(s) < 2 THEN s
    ELSE IF IsSpace(s[1]) /\ IsSpace(s[2]) THEN CollapseSpaces(Tail(s))
    ELSE <<s[1]>> \o CollapseSpaces(Tail(s))

html_to_text(html_content) ==
    Strip(CollapseSpaces(Unescape(RemoveTags(html_content))))

\* part.get('mimeType', '') and part.get('body', {}).get('data', '')
MimeTypeOf(part) == IF "mimeType" \in DOMAIN part THEN part.mimeType ELSE ""
DataOf(part) ==
    IF "body" \in DOMAIN part /\ "data" \in DOMAIN part.body
    THEN part.body.data ELSE ""

\* lines 82-110: the loop over payload['parts'], body threaded through it
RECURSIVE PartsLoop(_, _)
PartsLoop(parts, body) ==
    IF parts = <<>> THEN body
    ELSE LET part == Head(parts)
             mime_type == MimeTypeOf(part)
             data == DataOf(part)
             own == IF mime_type = "text/plain"
                    THEN IF data # "" THEN body \o B64Decode(data) ELSE body
                    ELSE IF mime_type = "text/html" /\ body = <<>>
                    THEN IF data # "" THEN html_to_text(B64Decode(data))
                         ELSE body
                    ELSE body
             nested_body == IF "parts" \in DOMAIN part
                            THEN Strip(PartsLoop(part.parts, <<>>))
                            ELSE <<>>
             after == IF nested_body # <<>> /\ own = <<>>
                      THEN nested_body ELSE own
         IN  PartsLoop(Tail(parts), after)

extract_plain_text_from_payload(payload) ==
    IF "parts" \in DOMAIN payload
    THEN Strip(PartsLoop(payload.parts, <<>>))
    ELSE LET mime_type == MimeTypeOf(payload)
             data == DataOf(payload)
         IN  IF data = "" THEN <<>>
             ELSE IF mime_type = "text/html"
             THEN Strip(html_to_text(B64Decode(data)))
             ELSE Strip(B64Decode(data))

\* str.lower() of a header name
LowerName(name) ==
    CASE name \in {"From", "FROM", "from"} -> "from"
      [] name \in {"Subject", "SUBJECT", "subject"} -> "subject"
      [] name \in {"Date", "DATE", "date"} -> "date"
      [] OTHER -> name

\* decode_mime_words, lines 25-47
decode_mime_words(header_value) ==
    CASE header_value = "=?utf-8?q?Hi?=" -> "Hi"
      [] OTHER -> header_value

\* lines 50-64; header['name'] raises KeyError on a header without a name
RECURSIVE get_header_value(_, _)
get_header_value(headers, name) ==
    IF headers = <<>> THEN [raised |-> FALSE, value |-> ""]
    ELSE IF "name" \notin DOMAIN Head(headers)
    THEN [raised |-> TRUE, value |-> ""]
    ELSE IF LowerName(Head(headers).name) = LowerName(name)
    THEN [raised |-> FALSE,
          value |-> IF "value" \in DOMAIN Head(headers)
                    THEN decode_mime_words(Head(headers).value) ELSE ""]
    ELSE get_header_value(Tail(headers), name)

\* re.search(r'[\w\.-]+@[\w\.-]+\.\w+', from_header), lines 207-209
SenderOf(from_header) ==
    CASE from_header = "Ann <a@b.c>" -> "a@b.c"
      [] OTHER -> from_header

\* format_date, lines 170-187, in a process whose local time is UTC
format_date(timestamp_ms) ==
    CASE timestamp_ms = "1000" -> "1970-01-01 00:00:01"
      [] OTHER -> "Unknown"

NoFields == [k \in {} |-> ""]

\* lines 190-238
parse_message(message) ==
    LET payload == IF "payload" \in DOMAIN message
                   THEN message.payload ELSE NoFields
        headers == IF "headers" \in DOMAIN payload
                   THEN payload.headers ELSE <<>>
        from_header == get_header_value(headers, "From")
        subject == get_header_value(headers, "Subject")
        date_header == get_header_value(headers, "Date")
        dated == "internalDate" \in DOMAIN message
        raised == from_header.raised \/ subject.raised
                      \/ (~dated /\ date_header.raised)
    IN  IF raised
        THEN [raised |-> TRUE]
        ELSE [raised |-> FALSE,
              from |-> SenderOf(from_header.value),
              subject |-> subject.value,
              date |-> IF dated THEN format_date(message.internalDate)
                       ELSE IF date_header.value # ""
                       THEN date_header.value ELSE "Unknown",
              content |-> extract_plain_text_from_payload(payload)]

\* the parts a payload is built from
PlainP == [mimeType |-> "text/plain", body |-> [data |-> "cA=="]]
PlainQ == [mimeType |-> "text/plain", body |-> [data |-> "cQ=="]]
PlainSpaced == [mimeType |-> "text/plain", body |-> [data |-> "IHAg"]]
HtmlH == [mimeType |-> "text/html", body |-> [data |-> "PGI-aDwvYj4="]]
PlainNoBody == [mimeType |-> "text/plain"]
LeafParts == {PlainP, PlainQ, PlainSpaced, HtmlH, PlainNoBody}

MultiParts ==
    {[mimeType |-> "multipart/alternative", parts |-> ps] :
         ps \in SeqsUpTo(LeafParts, MaxParts) \ {<<>>}}

StdHeaders ==
    <<[name |-> "From", value |-> "Ann <a@b.c>"],
      [name |-> "SUBJECT", value |-> "=?utf-8?q?Hi?="],
      [name |-> "Date", value |-> "d"]>>

Payloads ==
    {[mimeType |-> "multipart/mixed", headers |-> StdHeaders, parts |-> ps] :
         ps \in SeqsUpTo(LeafParts \cup MultiParts, MaxParts)}
        \cup {[mimeType |-> l.mimeType, headers |-> StdHeaders,
               body |-> l.body] : l \in LeafParts \ {PlainNoBody}}
        \cup {[mimeType |-> "text/html", headers |-> StdHeaders,
               body |-> [data |-> "PGk-eDwvaT4geQ=="]],
              [mimeType |-> "application/json", headers |-> StdHeaders,
               body |-> [data |-> "cQ=="]],
              [headers |-> StdHeaders],
              [mimeType |-> "text/plain", body |-> [data |-> "cA=="]],
              [mimeType |-> "text/plain"],
              [mimeType |-> "text/plain",
               headers |-> <<[value |-> "x"]>> \o StdHeaders,
               body |-> [data |-> "cA=="]]}

\* what users().messages().get(format='full') may hand to parse_message
RawParseMessages ==
    {[id |-> "m", internalDate |-> "1000", payload |-> p] : p \in Payloads}
        \cup {[id |-> "m", payload |-> p] :
                  p \in {q \in Payloads : "parts" \notin DOMAIN q}}
        \cup {[id |-> "m"], [id |-> "m", internalDate |-> "1000"]}

InitParse ==
    /\ mailbox = [m \in Msgs |-> "absent"]
    /\ sheet = <<>>
    /\ stateFile = <<>>
    /\ state = DefaultState
    /\ pc = "parse"
    /\ passCount = 0
    /\ InitLocals
    /\ calls = NoCalls
    /\ prev = NoPrev
    /\ faults = 0
    /\ dup = NoDup
    /\ SHEET_ID = ConfiguredSheetId
    /\ parse \in {[message |-> <<m>>, called |-> FALSE, result |-> <<>>] :
                      m \in RawParseMessages}

\* main line 211: parsed = EmailParser.parse_message(message)
CallParseMessage ==
    /\ pc = "parse"
    /\ ~parse.called
    /\ parse' = [parse EXCEPT !.called = TRUE,
                              !.result = <<parse_message(parse.message[1])>>]
    /\ UNCHANGED <<mailbox, sheet, stateFile, state, pc, passCount,
                   processed_ids, messages, new_messages, parsed_emails,
                   failed_parsing, idx, existing_rows, new_rows,
                   skipped_count, appended_count, markResult,
                   successfully_processed, calls, prev, faults, dup,
                   SHEET_ID>>

NextParse == CallParseMessage

SpecParse == InitParse /\ [][NextParse]_vars

----------------------------------------------------------------------------
(* Properties *)

\* two cells are equal ignoring case and surrounding whitespace
SameCell(a, b) == a = b \/ Lower(Strip(a)) = Lower(Strip(b))

\* two rows have the same sender, subject and timestamp
SameIdentity(r1, r2) ==
    /\ Len(r1) >= 3
    /\ Len(r2) >= 3
    /\ \A k \in 1..3 : SameCell(r1[k], r2[k])

\* the rows of the sheet that record message m
RowsRecording(m) == {i \in 1..Len(sheet) : SameIdentity(sheet[i], ParsedRow(m))}

\* the sheet has a row that records message m
Recorded(m) ==
    \/ \E i \in 1..Len(sheet) : sheet[i] = ParsedRow(m)
    \/ \E i \in 1..Len(sheet) : SameIdentity(sheet[i], ParsedRow(m))

ParsedIds == {parsed_emails[i].message_id : i \in 1..Len(parsed_emails)}

\* the ids the running pass has added to the processed list
NewlyProcessed ==
    IF pc \in {"auth", "unconfigured"} \/ calls.authFailed THEN {}
    ELSE SeqToSet(get_processed_ids(state)) \ processed_ids

\* C1: at-most-once row: for every message the sheet never holds more than
\* one row with that message's sender, subject and timestamp, whatever
\* passes, crashes and failed remote calls came before.
C1_AtMostOnceRow == \A m \in Msgs : Cardinality(RowsRecording(m)) <= 1

\* C2: marked read only after durable recording: every message the pass has
\* invoked mark-read for has a row in the sheet with its sender, subject and
\* timestamp, and no mark-read is invoked before append_rows has returned.
C2_MarkReadAfterRecording ==
    /\ \A i \in 1..Len(calls.mark) : Recorded(calls.mark[i])
    /\ calls.mark # <<>> => calls.appendReturned

\* C2 witness: a pass has marked read a message it appended and a message
\* it judged a duplicate.
C2_Witness ==
    /\ pc = "done"
    /\ Len(calls.mark) >= 2
    /\ skipped_count >= 1
    /\ calls.appended # <<>>

\* C3: invariant I1: an id is in the processed list only if its row is in
\* the sheet, and an id the running pass added only if, before that, the
\* provider confirmed its mark-read in this pass (append, mark-read, record).
C3_ProcessedAfterAppendAndMark ==
    /\ \A m \in NewlyProcessed : m \in calls.markOk /\ Recorded(m)
    /\ \A m \in SeqToSet(load_state(stateFile).processed_message_ids) :
           Recorded(m) /\ mailbox[m] # "absent"
    /\ calls.markOk # {} => calls.appendReturned

\* C3 witness: the pass has recorded one id and skipped one whose mark-read
\* failed.
C3_Witness ==
    /\ pc = "save"
    /\ NewlyProcessed # {}
    /\ ParsedIds \ NewlyProcessed # {}

\* C4: one row per message: at the end of a pass of a failure-free history
\* the number of rows the pass appended equals the number of distinct
\* messages it marked read.
C4_OneRowPerMessage ==
    (pc = "done" /\ faults = 0) =>
        Len(calls.appended) = Cardinality(SeqToSet(calls.mark))

\* C5 (as stated): a pass that follows a pass that reached Done, with no
\* mail arriving in between, appends no row and invokes no mark-read.
C5_Idempotence ==
    prev.quiet => (calls.appended = <<>> /\ calls.mark = <<>>)

\* C5 (amended): a pass that follows a pass that reached Done with no failed
\* full-content fetch or mark-read call, with every unread message in its
\* page and leaving a state file that loads, the mailbox unchanged in
\* between, appends no row and invokes no mark-read.
C5_IdempotenceAfterCleanPass ==
    prev.clean => (calls.appended = <<>> /\ calls.mark = <<>> /\ calls.appends = 0)

\* C5 witness: the second of two such passes has ended, the first having
\* appended rows.
C5_Witness == prev.clean /\ pc = "done" /\ Len(sheet) >= 3

\* C6: partial mark-read failure: when the mark loop has ended, mark-read was
\* invoked once for every parsed message, in order, whatever the earlier
\* calls returned, and the ids the pass added to the processed list are
\* exactly those whose mark-read call succeeded.
C6_PartialMarkReadFailure ==
    (pc \in {"save", "done"} /\ parsed_emails # <<>>) =>
        /\ calls.mark = [i \in 1..Len(parsed_emails) |-> parsed_emails[i].message_id]
        /\ NewlyProcessed = calls.markOk
        /\ SeqToSet(successfully_processed) = calls.markOk

\* C6 witness: three accepted messages, the mark-read of the first failed,
\* the processed list gained exactly two ids.
C6_Witness ==
    /\ pc = "save"
    /\ Len(new_rows) = 3
    /\ Len(calls.mark) = 3
    /\ calls.mark[1] \notin calls.markOk
    /\ Cardinality(NewlyProcessed) = 2

\* C7: retry after a mark-read failure: a message whose row the previous
\* pass appended and whose mark-read failed is, when this pass processes it,
\* not appended again, and it is in the processed list at the end of the
\* pass if its mark-read succeeded.
C7_RetryIsDuplicate ==
    \A m \in prev.pending :
        /\ \A i \in 1..Len(calls.appended) : calls.appended[i] # ParsedRow(m)
        /\ (pc = "save" /\ m \in calls.markOk) => m \in NewlyProcessed

\* C8: local short-circuit: for an id of the fetched page that is in the
\* processed set loaded at the start of the pass, the pass issues no
\* full-content fetch, no append and no mark-read.
C8_LocalShortCircuit ==
    \A m \in SeqToSet(messages) \cap processed_ids :
        /\ m \notin calls.full
        /\ m \notin ParsedIds
        /\ m \notin SeqToSet(calls.mark)
        /\ \A i \in 1..Len(calls.appended) : calls.appended[i] # ParsedRow(m)

\* C8 witness: the page held a processed id and an unprocessed one, and the
\* pass has marked the unprocessed one read.
C8_Witness ==
    /\ pc = "done"
    /\ SeqToSet(messages) \cap processed_ids # {}
    /\ calls.mark # <<>>

\* C9: empty-batch short-circuit: a fetch that returns no message takes the
\* pass to Done with every count at zero and no header write, append or
\* mark-read issued.
C9_EmptyBatchShortCircuit ==
    [][(pc = "fetch" /\ pc' \notin {"fetch", "aborted", "idle"} /\ messages' = <<>>) =>
          /\ pc' = "done"
          /\ new_messages' = <<>> /\ parsed_emails' = <<>>
          /\ appended_count' = 0 /\ skipped_count' = 0
          /\ successfully_processed' = <<>>
          /\ calls'.headerWrites = 0 /\ calls'.appends = 0 /\ calls'.mark = <<>>
          /\ sheet' = sheet /\ mailbox' = mailbox]_vars

\* C9 witness: a second pass has ended on an empty fetch.
C9_Witness == pc = "done" /\ messages = <<>> /\ passCount = 2 /\ Len(sheet) >= 2

Filtered == pc = "append" \/ (pc = "mark" /\ idx = 1)

\* the rows get_existing_rows returned to the running pass
RemoteRows == SubSeq(existing_rows, 1, Len(existing_rows) - Len(new_rows))

\* C11: within-batch duplicates: of the candidate rows of one pass that match
\* no row read from the sheet, one that matches an earlier candidate on
\* sender, subject and timestamp is not in the append batch, and one that
\* matches no earlier candidate is.
C11_WithinBatchDuplicates ==
    Filtered =>
        \A j \in 1..Len(parsed_emails) :
            LET row == parsed_emails[j].row
                remote == \E k \in 1..Len(RemoteRows) : SameIdentity(row, RemoteRows[k])
                earlier == \E i \in 1..(j - 1) : SameIdentity(row, parsed_emails[i].row)
            IN  ~remote => (earlier <=> row \notin SeqToSet(new_rows))

\* C11 witness: m1 and m2 are candidates of one pass, no row was read from
\* the sheet, the batch holds m1's row alone.
C11_Witness ==
    /\ pc = "append"
    /\ ParsedIds = {"m1", "m2"}
    /\ RemoteRows = <<>>
    /\ new_rows = <<ParsedRow("m1")>>
    /\ skipped_count = 1

\* the append call of the running pass raised
AppendFailed == calls.appends = 1 /\ ~calls.appendReturned

\* C12: a transport failure of the append call aborts the pass: no message
\* is marked read, no id is added to the processed set, and the state file
\* is not written by this pass.
C12_AppendFailureAborts ==
    AppendFailed =>
        /\ pc = "aborted"
        /\ calls.mark = <<>>
        /\ NewlyProcessed = {}
        /\ state = load_state(stateFile)
        /\ load_state(stateFile).last_run_timestamp # <<passCount>>

\* C12 witness: the second pass had a batch to append and the call raised,
\* the state file still being the one the first pass saved.
C12_Witness ==
    /\ AppendFailed
    /\ pc = "aborted"
    /\ new_rows # <<>>
    /\ passCount = 2
    /\ get_processed_ids(load_state(stateFile)) # <<>>

\* C13: a transport failure of the read of the existing rows or of the
\* header check aborts the pass: no append call and no mark-read call is
\* made in it.
C13_SinkFailureAborts ==
    calls.sinkFailed =>
        /\ calls.appends = 0
        /\ calls.mark = <<>>

\* C14: a failed save is not fatal and rolls nothing back: the pass reaches
\* Done and logs its counts, its appended rows are in the sheet and the
\* messages it marked are read, and a later pass appends no row again for a
\* message the pass with the failed save handled.
C14_SaveFailureNonFatal ==
    /\ calls.saveFailed =>
          /\ pc = "done"
          /\ calls.summary
          /\ \A m \in calls.markOk : mailbox[m] = "read"
          /\ \A i \in 1..Len(calls.appended) :
                 \E k \in 1..Len(sheet) : sheet[k] = calls.appended[i]
    /\ \A m \in prev.unsaved : ParsedRow(m) \notin SeqToSet(calls.appended)

\* C15: invariant I2: in a running pass every id of the processed set loaded
\* at the start is in the processed set of the state manager.
C15_ProcessedSetOnlyGrows ==
    pc # "idle" => processed_ids \subseteq SeqToSet(get_processed_ids(state))

\* C15 witness: the second pass loaded m1 and has added m2.
C15_Witness ==
    /\ pc = "save"
    /\ processed_ids = {"m1"}
    /\ SeqToSet(get_processed_ids(state)) = {"m1", "m2"}

\* C16 as stated: every pass that reaches Done has logged the summary of
\* counts.
C16_SummaryForEveryDonePass == pc = "done" => calls.summary

\* C16: a pass that reaches Done has logged the summary of counts exactly
\* when it parsed at least one message, whether or not a message failed
\* individually or the save failed.
C16_SummaryWhenParsed == pc = "done" => (calls.summary <=> parsed_emails # <<>>)

\* C16 witness: a pass in which one message failed to parse, one mark-read
\* call failed and the summary was logged.
C16_Witness ==
    /\ pc = "done"
    /\ calls.summary
    /\ failed_parsing # <<>>
    /\ calls.markOk # SeqToSet(calls.mark)

\* C17: store layout: once a pass has appended rows, row 1 of the sheet is
\* the header and each appended row lies at row 2 or below, where the read
\* of the existing rows finds it.
C17_StoreLayout ==
    calls.appended # <<>> =>
        /\ sheet[1] = HEADER_ROW
        /\ \A i \in 1..Len(calls.appended) :
               \E k \in 1..Len(ReadDataRange(sheet)) :
                   ReadDataRange(sheet)[k] = DropTrailingEmpty(calls.appended[i])

\* the ids a state.json holds for a reader that defaults what is missing
PersistedIds(file) ==
    IF file = <<>> \/ file = <<NotJson>> THEN {}
    ELSE IF "processed_message_ids" \in DOMAIN file[1]
         THEN SeqToSet(file[1].processed_message_ids)
         ELSE {}

\* C18: state load never fails the caller: with no state.json or one that
\* does not parse the loaded state is the zero-value state, otherwise it is
\* the persisted record, and the processed ids read from a record without
\* that field are the empty set.
C18_LoadNeverFails ==
    /\ pc = "loaded" =>
          IF stateFile = <<>> \/ stateFile = <<NotJson>>
          THEN state = [processed_message_ids |-> <<>>, last_run_timestamp |-> <<>>]
          ELSE state = stateFile[1]
    /\ pc = "ids" => processed_ids = PersistedIds(stateFile)

\* C18 witness: a state.json that does not parse has been loaded and the
\* processed ids have been read from the result.
C18_Witness ==
    /\ pc = "ids"
    /\ stateFile = <<NotJson>>
    /\ state = DefaultState
    /\ processed_ids = {}

\* C19: with the sheet id not configured a run issues no call to the mail
\* provider or the spreadsheet provider (no authentication, fetch, read,
\* append or mark-read) and does not write the state file.
C19_ConfigErrorBeforeAnyCall ==
    SHEET_ID = "YOUR_SHEET_ID_HERE" =>
        /\ calls = NoCalls
        /\ pc \in {"idle", "unconfigured"}
        /\ sheet = <<>>
        /\ stateFile = <<>>
        /\ \A m \in Msgs : mailbox[m] # "read"

\* C19 witness: the second run of an unconfigured deployment has ended at the
\* check with unread mail waiting.
C19_Witness ==
    /\ SHEET_ID = "YOUR_SHEET_ID_HERE"
    /\ pc = "unconfigured"
    /\ passCount = 2
    /\ \E m \in Msgs : mailbox[m] = "unread"

\* the parse loop of the running pass has been left
ParseLoopLeft ==
    pc \in {"header", "read", "append", "mark", "record", "save", "done", "aborted"}

\* C20: a per-message parse failure is isolated: the failing message is not
\* among the parsed ones, its row is not appended, no mark-read is invoked
\* for it and it is not in the processed list, while the parsed messages are
\* the other new messages in fetch order, and mark-read is invoked for each
\* of them when the pass reaches the end.
C20_ParseFailureIsolated ==
    /\ \A i \in 1..Len(failed_parsing) :
           LET m == failed_parsing[i]
           IN  /\ m \notin ParsedIds
               /\ ParsedRow(m) \notin SeqToSet(calls.appended)
               /\ m \notin SeqToSet(calls.mark)
               /\ m \notin SeqToSet(get_processed_ids(state))
    /\ ParseLoopLeft =>
           [i \in 1..Len(parsed_emails) |-> parsed_emails[i].message_id]
               = SelectSeq(new_messages, LAMBDA m : m \notin SeqToSet(failed_parsing))
    /\ (pc = "done" /\ parsed_emails # <<>>) => SeqToSet(calls.mark) = ParsedIds

\* C20 witness: one message failed to parse, the pass appended the row of
\* another and marked it read.
C20_Witness ==
    /\ pc = "done"
    /\ failed_parsing # <<>>
    /\ ~calls.fullFailed
    /\ calls.appended # <<>>
    /\ calls.markOk = ParsedIds
    /\ SeqToSet(get_processed_ids(state)) = ParsedIds

\* the number of mark-read calls the running pass has made for message m
MarkCalls(m) == Cardinality({i \in 1..Len(calls.mark) : calls.mark[i] = m})

C23_RemoteCallsConstant ==
    /\ calls.reads <= 1
    /\ calls.appends <= 1
    /\ (calls.appends = 1 /\ calls.appendReturned) => calls.appended = new_rows
    /\ (calls.reads = 1 /\ new_rows = <<>>) => calls.appends = 0

\* C23 witness: one read and one append call that carried two rows.
C23_Witness ==
    /\ pc = "mark"
    /\ calls.reads = 1
    /\ calls.appends = 1
    /\ Len(calls.appended) = 2

\* a is b with some elements dropped and none moved
RECURSIVE IsSubsequence(_, _)
IsSubsequence(a, b) ==
    IF a = <<>> THEN TRUE
    ELSE IF b = <<>> THEN FALSE
    ELSE IF Head(a) = Head(b) THEN IsSubsequence(Tail(a), Tail(b))
    ELSE IsSubsequence(a, Tail(b))

\* the ids of the parsed messages, in the order of parsed_emails
ParsedIdSeq == [i \in 1..Len(parsed_emails) |-> parsed_emails[i].message_id]

\* C24: order preservation within a pass: the new messages, the parsed
\* messages, the rows of the append batch and the mark-read calls each keep
\* the relative order of the fetch result; filtering, parse failures and
\* duplicate removal drop elements and move none.
C24_OrderPreserved ==
    /\ IsSubsequence(new_messages, messages)
    /\ IsSubsequence(ParsedIdSeq, new_messages)
    /\ IsSubsequence(new_rows, [i \in 1..Len(parsed_emails) |-> parsed_emails[i].row])
    /\ calls.appended \in {<<>>, new_rows}
    /\ calls.mark = SubSeq(ParsedIdSeq, 1, Len(calls.mark))

\* C24 witness: of three fetched messages the second failed to parse, the
\* rows of the first and the third were appended in that order and both were
\* marked read.
C24_Witness ==
    /\ pc = "save"
    /\ Len(messages) = 3
    /\ failed_parsing = <<messages[2]>>
    /\ calls.appended = <<ParsedRow(messages[1]), ParsedRow(messages[3])>>
    /\ calls.mark = <<messages[1], messages[3]>>

\* C29: a pass that ends early (empty fetch, every fetched id processed, or
\* no message parsed) has written no header, made no append and no mark-read
\* call, changed neither the processed list nor the last-run timestamp, and
\* has not written the state file.
C29_ShortCircuitFrame ==
    (pc \in {"save", "done"} /\ parsed_emails = <<>>) =>
        /\ pc = "done"
        /\ calls.headerWrites = 0
        /\ calls.reads = 0
        /\ calls.appends = 0
        /\ calls.mark = <<>>
        /\ state = load_state(stateFile)
        /\ state.last_run_timestamp # <<passCount>>

\* C29 witness: the second pass found every fetched id processed and ended,
\* the state file being the one the first pass saved.
C29_Witness ==
    /\ pc = "done"
    /\ passCount = 2
    /\ messages # <<>>
    /\ new_messages = <<>>
    /\ state = load_state(stateFile)
    /\ state.last_run_timestamp = <<1>>

\* no element occurs twice in s
NoRepeat(s) == \A i, j \in 1..Len(s) : s[i] = s[j] => i = j

\* C25: mark_processed is idempotent and keeps the id list duplicate-free: a
\* call either leaves the state as it is or appends one id that was not in
\* the list, so a list without repetition stays without repetition.
C25_MarkProcessedIdempotent ==
    [][(pc = "ids" /\ pc' = "ids") =>
          LET before == get_processed_ids(state)
              after == get_processed_ids(state')
          IN  /\ \E m \in Msgs \ SeqToSet(before) : after = Append(before, m)
              /\ NoRepeat(before) => NoRepeat(after)]_vars

\* C25 witness: the list loaded as <<m1>> has become <<m1, m2>> after calls
\* of mark_processed.
C25_Witness ==
    /\ pc = "ids"
    /\ processed_ids = {"m1"}
    /\ get_processed_ids(load_state(stateFile)) = <<"m1">>
    /\ get_processed_ids(state) = <<"m1", "m2">>

\* C21: a transport failure of the full-content fetch of one message aborts
\* the pass: the pass makes no append call and no mark-read call after it.
C21_FetchFullFailureAborts ==
    calls.fullFailed => (calls.appends = 0 /\ calls.mark = <<>>)

\* the leaf parts of a part tree in depth-first order
RECURSIVE LeavesDepthFirst(_)
LeavesDepthFirst(parts) ==
    IF parts = <<>> THEN <<>>
    ELSE LET part == Head(parts)
         IN  (IF "parts" \in DOMAIN part
              THEN LeavesDepthFirst(part.parts) ELSE <<part>>)
                 \o LeavesDepthFirst(Tail(parts))

CarriesText(part, mime_type) ==
    MimeTypeOf(part) = mime_type /\ DataOf(part) # ""

\* C26: for a payload that is a tree of parts, the extracted body is the
\* content of the first plain-text part in depth-first order whenever a
\* plain-text part exists; the first HTML part, stripped of markup, is used
\* only when the tree holds no plain-text part.
C26_FirstPlainPartPreferred ==
    (parse.called /\ "payload" \in DOMAIN parse.message[1]
         /\ "parts" \in DOMAIN parse.message[1].payload
         /\ ~parse.result[1].raised) =>
        LET leaves == LeavesDepthFirst(parse.message[1].payload.parts)
            plain == SelectSeq(leaves, LAMBDA l : CarriesText(l, "text/plain"))
            html == SelectSeq(leaves, LAMBDA l : CarriesText(l, "text/html"))
        IN  parse.result[1].content =
                IF plain # <<>> THEN Strip(B64Decode(DataOf(plain[1])))
                ELSE IF html # <<>> THEN html_to_text(B64Decode(DataOf(html[1])))
                ELSE <<>>

\* C27: normalizing a raw message that has neither a headers field nor a
\* body/payload field fails, so that no record is produced for it.
C27_AbsentStructureFails ==
    (parse.called
         /\ ("payload" \notin DOMAIN parse.message[1]
                \/ ("headers" \notin DOMAIN parse.message[1].payload
                       /\ "body" \notin DOMAIN parse.message[1].payload
                       /\ "parts" \notin DOMAIN parse.message[1].payload))) =>
        parse.result[1].raised

\* C28: progress under repeated passes: when passes are invoked again and
\* again and every remote call succeeds, every unread message that is not yet
\* in the persisted processed list eventually has a row in the sheet and is
\* marked read, whatever else occupies the fetch page.
C28_EveryUnreadEventuallyRecorded ==
    \A m \in Msgs :
        (mailbox[m] = "unread" /\ m \notin PersistedIds(stateFile))
            ~> (mailbox[m] = "read" /\ Recorded(m))

====
